---------------------------- MODULE Spec2Model ----------------------------
(***************************************************************************)
(* Model of the Green Hydrogen Credit ledger (blockchain/green_chain.py):  *)
(* hash-linked blocks sealed by proof-of-work, the certificate index, the  *)
(* retired set and the JSON storage document.                              *)
(***************************************************************************)
EXTENDS Integers, Sequences, FiniteSets

(* ------------------------------ bounds -------------------------------- *)

\* Longest chain explored (the Genesis block included): a call that would
\* make the chain longer is not taken.
MaxBlocks == 4

\* uuid4() is drawn from 1..MaxCerts.
MaxCerts == 2

\* The clock reading of a call (time.time(), and datetime.now() written
\* into the payload) is drawn from 1..MaxTime.
MaxTime == 1

\* The ledger's difficulty (constructor argument, green_chain.py:53).
difficulty == 1

\* At most MaxEvents events are put on the event queue.
MaxEvents == 3

\* The cap of the rolling event history: 1000 in realtime_chain.py:92-93,
\* scaled down so that the cap is reached.
HistoryCap == 2

(* ------------------------- values and hashing ------------------------- *)

\* Python's None, the value dict.get gives for an absent key.
None == 0

\* A hex digest has base-16 characters.
HexBase == 16

\* The model tracks the first two hex characters of a digest as a number.
HashSpace == HexBase * HexBase

CertIds == 1..MaxCerts

Times == 1..MaxTime

\* dict.get(key): the value, or None when the key is absent.
Get(d, k) == IF k \in DOMAIN d THEN d[k] ELSE None

RECURSIVE Pow(_, _)
Pow(b, e) == IF e = 0 THEN 1 ELSE b * Pow(b, e - 1)

\* The previous_hash "0" of the Genesis block.
ZeroHash == [prefix |-> 0, body |-> <<>>]

\* A hash argument that is no hash the ledger ever produced.
UnknownHash == [prefix |-> HashSpace, body |-> <<>>]

\* How the payload enters the leading characters of the digest.
DataCode(d) ==
    CASE d.type = "genesis" ->
            1 + 5 * d.timestamp + (IF d.message = "Genesis Block" THEN 0 ELSE 9)
      [] d.type = "hydrogen_credit_certificate" ->
            2 + 3 * d.certificate_id + 5 * d.seller_id + 7 * d.facility_name
              + 11 * d.hydrogen_weight_kg + 13 * d.tokens_generated
              + 17 * d.renewable_source + 19 * d.production_date
              + 23 * d.location + 29 * d.certification_type
              + 31 * d.price_per_token + 37 * d.issued_at
      [] d.type = "certificate_retirement" ->
            3 + 3 * d.certificate_id + 5 * d.original_hash.prefix
              + 7 * d.retired_at
      [] OTHER -> 0

\* Block.calculate_hash: SHA-256 over the JSON of the five hashed fields.
\* The digest is idealised as collision-free: its body is the hashed content,
\* and its prefix is the number its leading hex characters spell.
CalculateHash(index, timestamp, data, previous_hash, nonce) ==
    [prefix |-> (41 * index + 43 * timestamp + 47 * DataCode(data)
                   + 53 * previous_hash.prefix + 59 * Len(previous_hash.body)
                   + 37 * nonce) % HashSpace,
     body |-> <<index, timestamp, data, previous_hash, nonce>>]

\* hash.startswith('0' * d)
StartsWithZeros(h, d) == h.prefix < HashSpace \div Pow(HexBase, d)

\* Block.__init__: the hash is computed from the other fields.
NewBlock(index, timestamp, data, previous_hash, nonce) ==
    [index |-> index, timestamp |-> timestamp, data |-> data,
     previous_hash |-> previous_hash, nonce |-> nonce,
     hash |-> CalculateHash(index, timestamp, data, previous_hash, nonce)]

\* block.calculate_hash() of an existing block.
BlockHash(b) == CalculateHash(b.index, b.timestamp, b.data, b.previous_hash, b.nonce)

\* Block.to_dict
ToDict(b) ==
    [index |-> b.index, timestamp |-> b.timestamp, data |-> b.data,
     previous_hash |-> b.previous_hash, nonce |-> b.nonce, hash |-> b.hash]

\* The block load_blockchain / import_chain builds from a stored record:
\* the constructor's hash is overwritten by the stored one.
FromDict(d) ==
    [index |-> d.index, timestamp |-> d.timestamp, data |-> d.data,
     previous_hash |-> d.previous_hash, nonce |-> d.nonce, hash |-> d.hash]

(* ------------------------------- state --------------------------------- *)

VARIABLES
    chain,                  \* self.chain: sequence of blocks
    certificates,           \* self.certificates: insertion-ordered dict,
                            \*   a sequence of [id, info]
    retired_certificates,   \* self.retired_certificates: set of ids
    disk,                   \* the storage document at storage_file
    last,                   \* the last completed call and what it returned
    tamper,                 \* what was altered in the storage document from
                            \*   outside the program, if anything
    threads,                \* per request thread: where it is in its call,
                            \*   the call's locals and what it returned
    bus,                    \* the RealTimeBlockchain object, its dispatcher
                            \*   thread and what the socket layer was handed
    manager                 \* the BlockchainEventManager object and the
                            \*   outcome of its last handle_event call

vars ==
    <<chain, certificates, retired_certificates, disk, last, tamper, threads,
      bus, manager>>

(* --------------------------- certificate index ------------------------ *)

CertKeys(certs) == {certs[i].id : i \in 1..Len(certs)}

\* Position of key id in the dict (0 when absent).
CertPos(certs, id) ==
    IF id \in CertKeys(certs)
    THEN CHOOSE i \in 1..Len(certs) : certs[i].id = id
    ELSE 0

\* self.certificates[id]
CertInfo(certs, id) == certs[CertPos(certs, id)].info

\* self.certificates[id] = info: a new key goes last, an old key keeps its place.
CertStore(certs, id, info) ==
    IF id \in CertKeys(certs)
    THEN [certs EXCEPT ![CertPos(certs, id)].info = info]
    ELSE Append(certs, [id |-> id, info |-> info])

\* Mutant of FindByHash: when no certificate has the hash, the first one of
\* the index is taken.
FindByHash_FirstOnMiss(certs, h) ==
    LET hits == {i \in 1..Len(certs) : certs[i].info.hash = h}
    IN IF hits = {}
       THEN (IF Len(certs) > 0 THEN 1 ELSE 0)
       ELSE CHOOSE i \in hits : \A j \in hits : i <= j

\* "for cert_id, cert_info in self.certificates.items():
\*      if cert_info['hash'] == certificate_hash": the first match, 0 if none.
FindByHash(certs, h) ==
    LET hits == {i \in 1..Len(certs) : certs[i].info.hash = h}
    IN IF hits = {} THEN 0 ELSE CHOOSE i \in hits : \A j \in hits : i <= j

(* ------------------------------ persistence --------------------------- *)

\* save_blockchain: the document written to storage_file (last_updated, a
\* clock reading nothing reads back, is left out).
Document(ch, certs, ret) ==
    [chain |-> [i \in 1..Len(ch) |-> ToDict(ch[i])],
     certificates |-> certs,
     retired_certificates |-> ret,
     total_blocks |-> Len(ch),
     total_certificates |-> Len(certs),
     retired_count |-> Cardinality(ret)]

(* ------------------------- mining and validation ---------------------- *)

\* get_latest_block
GetLatestBlock(ch) == ch[Len(ch)]

\* Mutant of MineLoop: the nonce goes up by two per attempt.
RECURSIVE MineLoop_ByTwo(_)
MineLoop_ByTwo(b) ==
    IF StartsWithZeros(b.hash, difficulty)
    THEN b
    ELSE MineLoop_ByTwo(
             [b EXCEPT !.nonce = b.nonce + 2,
                       !.hash = CalculateHash(b.index, b.timestamp, b.data,
                                              b.previous_hash, b.nonce + 2)])

\* The while loop of mine_block: the nonce goes up by one until the hash
\* starts with `difficulty` zeros.
RECURSIVE MineLoop(_)
MineLoop(b) ==
    IF StartsWithZeros(b.hash, difficulty)
    THEN b
    ELSE MineLoop([b EXCEPT !.nonce = b.nonce + 1,
                            !.hash = CalculateHash(b.index, b.timestamp, b.data,
                                                   b.previous_hash, b.nonce + 1)])

\* Mutant of MineBlock: the new index is the tip's index, not one more.
MineBlock_SameIndex(ch, data, ts) ==
    IF Len(ch) = 0
    THEN MineLoop(NewBlock(0, ts, data, ZeroHash, 0))
    ELSE MineLoop(NewBlock(GetLatestBlock(ch).index, ts, data,
                           GetLatestBlock(ch).hash, 0))

\* mine_block(data), with time.time() = ts.
MineBlock(ch, data, ts) ==
    IF Len(ch) = 0
    THEN MineLoop(NewBlock(0, ts, data, ZeroHash, 0))
    ELSE MineLoop(NewBlock(GetLatestBlock(ch).index + 1, ts, data,
                           GetLatestBlock(ch).hash, 0))

\* is_valid_block
IsValidBlock(ch, block) ==
    IF block.index = 0 THEN TRUE
    ELSE IF block.index - 1 >= Len(ch) THEN FALSE
    ELSE IF block.previous_hash # ch[block.index].hash THEN FALSE
    ELSE IF block.hash # BlockHash(block) THEN FALSE
    ELSE IF ~StartsWithZeros(block.hash, difficulty) THEN FALSE
    ELSE TRUE

\* is_chain_valid
IsChainValid(ch) == \A i \in 2..Len(ch) : IsValidBlock(ch, ch[i])

\* Mutant of AppendBlock: a copy of the block is appended, built without
\* its nonce.
AppendBlock_DropNonce(ch, block) ==
    Append(ch, NewBlock(block.index, block.timestamp, block.data,
                        block.previous_hash, 0))

\* Mutant of AppendBlock: the block is appended with its nonce raised by
\* one and its hash as it was.
AppendBlock_BumpNonce(ch, block) ==
    Append(ch, [block EXCEPT !.nonce = @ + 1])

\* self.chain.append(block) in add_block
AppendBlock(ch, block) == Append(ch, block)

(* --------------------------- payload builders ------------------------- *)

\* genesis_data of create_genesis_block
GenesisData(iso) ==
    [type |-> "genesis", message |-> "Genesis Block", timestamp |-> iso,
     version |-> "1.0", description |-> "simulation"]

\* Mutant of CertificateData: the price is read under a key the caller
\* does not use.
CertificateData_WrongKey(id, data, iso) ==
    [type |-> "hydrogen_credit_certificate",
     certificate_id |-> id,
     seller_id |-> Get(data, "seller_id"),
     facility_name |-> Get(data, "facility_name"),
     hydrogen_weight_kg |-> Get(data, "hydrogen_weight_kg"),
     tokens_generated |-> Get(data, "tokens_generated"),
     renewable_source |-> Get(data, "renewable_source"),
     production_date |-> Get(data, "production_date"),
     location |-> Get(data, "location"),
     certification_type |-> Get(data, "certification_type"),
     price_per_token |-> Get(data, "price"),
     status |-> "issued",
     issued_at |-> iso,
     blockchain_version |-> "1.0"]

\* certificate_data of issue_certificate
CertificateData(id, data, iso) ==
    [type |-> "hydrogen_credit_certificate",
     certificate_id |-> id,
     seller_id |-> Get(data, "seller_id"),
     facility_name |-> Get(data, "facility_name"),
     hydrogen_weight_kg |-> Get(data, "hydrogen_weight_kg"),
     tokens_generated |-> Get(data, "tokens_generated"),
     renewable_source |-> Get(data, "renewable_source"),
     production_date |-> Get(data, "production_date"),
     location |-> Get(data, "location"),
     certification_type |-> Get(data, "certification_type"),
     price_per_token |-> Get(data, "price_per_token"),
     status |-> "issued",
     issued_at |-> iso,
     blockchain_version |-> "1.0"]

\* retirement_data of retire_certificate
RetirementData(id, h, iso) ==
    [type |-> "certificate_retirement",
     certificate_id |-> id,
     original_hash |-> h,
     retired_at |-> iso,
     status |-> "retired",
     reason |-> "Certificate used for credit purchase"]

(* -------------------------------- queries ----------------------------- *)

\* verify_certificate
VerifyCertificate(ch, certs, ret, h) ==
    LET p == FindByHash(certs, h) IN
    IF p = 0
    THEN [valid |-> FALSE, info |-> [error |-> "Certificate not found"]]
    ELSE IF certs[p].id \in ret
    THEN [valid |-> FALSE,
          info |-> [error |-> "Certificate has been retired/used",
                    status |-> "retired"]]
    ELSE IF certs[p].info.block_index < Len(ch)
            /\ ch[certs[p].info.block_index + 1].hash = h
    THEN [valid |-> TRUE, info |-> certs[p].info.data]
    ELSE [valid |-> FALSE, info |-> [error |-> "Certificate not found in blockchain"]]

\* Mutant of VerifyCertificateById: the retired set is not consulted.
VerifyCertificateById_NoRetiredCheck(ch, certs, ret, id) ==
    IF id \notin CertKeys(certs)
    THEN [valid |-> FALSE, info |-> [error |-> "Certificate ID not found"]]
    ELSE IF CertInfo(certs, id).block_index < Len(ch)
            /\ ch[CertInfo(certs, id).block_index + 1].hash
                   = CertInfo(certs, id).hash
    THEN [valid |-> TRUE, info |-> CertInfo(certs, id).data]
    ELSE [valid |-> FALSE,
          info |-> [error |-> "Certificate not found in blockchain"]]

\* verify_certificate_by_id
VerifyCertificateById(ch, certs, ret, id) ==
    IF id \notin CertKeys(certs)
    THEN [valid |-> FALSE, info |-> [error |-> "Certificate ID not found"]]
    ELSE IF id \in ret
    THEN [valid |-> FALSE,
          info |-> [error |-> "Certificate has been retired/used",
                    status |-> "retired"]]
    ELSE IF CertInfo(certs, id).block_index < Len(ch)
            /\ ch[CertInfo(certs, id).block_index + 1].hash = CertInfo(certs, id).hash
    THEN [valid |-> TRUE, info |-> CertInfo(certs, id).data]
    ELSE [valid |-> FALSE, info |-> [error |-> "Certificate not found in blockchain"]]

\* The empty query string, which every string contains; the other
\* queries are codes, as the strings of the certificate data are.
EmptyQuery == 0

\* The queries a caller passes to search_transactions.
SearchQueries == {EmptyQuery, 1, 2}

\* The fields search_transactions looks into with
\* "query in data.get(field, '').lower()", in the order of the "or".
SearchedFields ==
    <<"facility_name", "location", "renewable_source", "certification_type">>

\* The "or" of search_transactions from the i-th field on, for one
\* certificate payload: "raise" when a field evaluated is None (the key is
\* there, so get's default is not used, and None has no lower()), "match"
\* at the first field that contains the query, which ends the evaluation;
\* the last operand, str(certificate_id), never raises.
RECURSIVE SearchFields(_, _, _)
SearchFields(data, query, i) ==
    IF i > Len(SearchedFields)
    THEN IF query = EmptyQuery \/ query = data.certificate_id
         THEN "match" ELSE "no match"
    ELSE IF data[SearchedFields[i]] = None THEN "raise"
    ELSE IF query = EmptyQuery \/ query = data[SearchedFields[i]] THEN "match"
    ELSE SearchFields(data, query, i + 1)

\* list.sort(key=timestamp, reverse=True): newest first, entries of equal
\* timestamp in their original order.
RECURSIVE SortNewestFirst(_)
SortNewestFirst(s) ==
    IF s = <<>> THEN <<>>
    ELSE LET rest == SortNewestFirst(Tail(s))
             k == Cardinality({j \in 1..Len(rest) :
                                  rest[j].timestamp > Head(s).timestamp})
         IN  SubSeq(rest, 1, k) \o <<Head(s)>> \o SubSeq(rest, k + 1, Len(rest))

\* The loop of search_transactions over the blocks from position i on,
\* found being the matches so far.
RECURSIVE SearchLoop(_, _, _, _)
SearchLoop(ch, query, i, found) ==
    IF i > Len(ch) THEN [raised |-> FALSE, result |-> SortNewestFirst(found)]
    ELSE IF ch[i].data.type # "hydrogen_credit_certificate"
    THEN SearchLoop(ch, query, i + 1, found)
    ELSE LET hit == SearchFields(ch[i].data, query, 1) IN
         IF hit = "raise" THEN [raised |-> TRUE, result |-> <<>>]
         ELSE IF hit = "match"
         THEN SearchLoop(ch, query, i + 1,
                  Append(found, [timestamp |-> ch[i].data.issued_at,
                                 block_index |-> ch[i].index,
                                 block_hash |-> ch[i].hash,
                                 certificate_id |-> ch[i].data.certificate_id]))
         ELSE SearchLoop(ch, query, i + 1, found)

\* search_transactions(query): whether it raised, and the list returned.
SearchTransactions(ch, query) == SearchLoop(ch, query, 1, <<>>)

\* The loop of get_blockchain_analytics over the index from position i on:
\* "total_tokens += tokens" and "tokens * price" raise TypeError on None.
RECURSIVE AnalyticsLoop(_, _, _, _)
AnalyticsLoop(certs, ret, i, acc) ==
    IF i > Len(certs) THEN [raised |-> FALSE, token_economics |-> acc]
    ELSE LET tokens == certs[i].info.data.tokens_generated
             price  == certs[i].info.data.price_per_token
         IN  IF tokens = None \/ price = None
             THEN [raised |-> TRUE, token_economics |-> acc]
             ELSE AnalyticsLoop(certs, ret, i + 1,
                    [total_tokens_issued |-> acc.total_tokens_issued + tokens,
                     total_price |-> acc.total_price + tokens * price,
                     active_tokens |-> acc.active_tokens +
                        (IF certs[i].id \notin ret THEN tokens ELSE 0),
                     total_tokens_retired |-> acc.total_tokens_retired +
                        (IF certs[i].id \in ret THEN tokens ELSE 0)])

\* get_blockchain_analytics(): whether it raised, and the summary and the
\* token sums of the dictionary returned (the average price is total_price
\* over total_tokens_issued).
GetBlockchainAnalytics(ch, certs, ret) ==
    LET a == AnalyticsLoop(certs, ret, 1,
                 [total_tokens_issued |-> 0, total_price |-> 0,
                  active_tokens |-> 0, total_tokens_retired |-> 0])
    IN  [raised |-> a.raised,
         total_blocks |-> Len(ch),
         total_certificates |-> Len(certs),
         active_certificates |-> Len(certs) - Cardinality(ret),
         retired_certificates |-> Cardinality(ret),
         token_economics |-> a.token_economics]

\* get_chain_info(): the entries computed from the ledger (storage_file and
\* last_updated are a constant and the clock).
GetChainInfo(ch, certs, ret) ==
    [total_blocks |-> Len(ch),
     total_certificates |-> Len(certs),
     retired_certificates |-> Cardinality(ret),
     active_certificates |-> Len(certs) - Cardinality(ret),
     difficulty |-> difficulty,
     last_block_hash |-> IF ch # <<>> THEN GetLatestBlock(ch).hash ELSE None]

(* ------------------------------- inputs ------------------------------- *)

\* The certificate data of test_blockchain.py (strings as codes), and a
\* dict that lacks most fields.
FullData ==
    [seller_id |-> 2, facility_name |-> 1, hydrogen_weight_kg |-> 200,
     tokens_generated |-> 200, renewable_source |-> 1, production_date |-> 1,
     location |-> 1, certification_type |-> 2, price_per_token |-> 4]

PartialData == [seller_id |-> 1, hydrogen_weight_kg |-> 50]

CertInputs == {FullData, PartialData}

NoData == [seller_id |-> None]

\* Hashes a caller may pass: those of the index and one that is no
\* certificate's hash.
KnownHashes ==
    {certificates[i].info.hash : i \in 1..Len(certificates)} \cup {UnknownHash}

\* The record of a completed call.
Call(op, h, id, data, ok, raised) ==
    [op |-> op, hash |-> h, id |-> id, data |-> data, ok |-> ok,
     raised |-> raised]

\* Nothing in the storage document has been altered.  `loads` counts the
\* times an altered document was loaded (up to 2).
NoTamper == [what |-> "none", block |-> 0, loads |-> 0]

\* The request threads of the web layer (SocketIO async_mode='threading').
Threads == {"t1", "t2"}

NoBlock == NewBlock(0, 0, [type |-> "none"], ZeroHash, 0)

\* A thread that is in no ledger call and has made none.
IdleThread ==
    [pc |-> "idle", op |-> "none", hash |-> UnknownHash, id |-> None,
     data |-> NoData, block |-> NoBlock, ret |-> "none"]

(* ------------------------------ event bus ----------------------------- *)
(* RealTimeBlockchain (blockchain/realtime_chain.py): emit_* calls put     *)
(* events on a queue; one background thread takes them off, hands each to  *)
(* the socket layer and records it in a rolling history.                   *)

\* The ledger's variables and the histories of its calls: no statement of
\* realtime_chain.py touches them.
ledgerVars ==
    <<chain, certificates, retired_certificates, disk, last, tamper, threads>>

\* The 'type' each emit_* function gives its event.
EventTypes ==
    {"certificate_issued", "certificate_verified", "certificate_traded",
     "certificate_retired", "blockchain_update"}

\* The 'room' each emit_* function gives its event.
RoomOf(ty) == IF ty = "blockchain_update" THEN "broadcast" ELSE "blockchain"

\* The event dict an emit_* function builds.  n numbers the events in the
\* order they are put on the queue; it stands for the timestamp and data
\* that tell one event from another.
NewEvent(ty, n) == [type |-> ty, room |-> RoomOf(ty), n |-> n]

NoEvent == [type |-> "none", room |-> "none", n |-> 0]

\* RealTimeBlockchain.__init__: empty queue and history, running = True, the
\* dispatcher thread started at the top of its loop.  `socket` lists the
\* events socketio.emit was called with and returned for, `raised` the
\* numbers of those it raised for, `emitted` counts the events put so far.
NewBus ==
    [event_queue |-> <<>>, blockchain_events |-> <<>>, running |-> TRUE,
     pc |-> "test", event |-> NoEvent,
     socket |-> <<>>, raised |-> {}, emitted |-> 0]

\* Mutant of CanPut: put waits until the dispatcher is at the top of its
\* loop.
CanPut_WhenIdle(b) == b.pc = "test"

\* queue.Queue() has no maxsize: put never waits.
CanPut(b) == TRUE

\* self.event_queue.put(event)
QueuePut(b, ty) ==
    [b EXCEPT !.event_queue = Append(@, NewEvent(ty, b.emitted + 1)),
              !.emitted = @ + 1]

\* Mutant of QueueGet: the newest event is taken.
QueueGet_Newest(q) == [event |-> q[Len(q)], rest |-> SubSeq(q, 1, Len(q) - 1)]

\* Mutant of QueueGet: the oldest event is read and left on the queue.
QueueGet_Peek(q) == [event |-> Head(q), rest |-> q]

\* self.event_queue.get(): the oldest event, taken off the queue.
QueueGet(q) == [event |-> Head(q), rest |-> Tail(q)]

\* A loop test that never sees the stop signal.
LoopEnds_Never(b) == FALSE

\* A dispatcher thread that leaves its loop at the first test.
LoopEnds_AtOnce(b) == TRUE

\* "while self.running": whether the loop ends here.
LoopEnds(b) == ~b.running

\* A dispatcher whose thread ends when a delivery raises.
AfterRaise_Dies(b) ==
    [b EXCEPT !.pc = "done", !.event = NoEvent,
              !.raised = @ \cup {b.event.n}]

\* The except branch of _broadcast_event when socketio.emit raises: the
\* error is logged, the event is neither recorded nor put back, and
\* _process_events sleeps and loops.
AfterRaise(b) ==
    [b EXCEPT !.pc = "test", !.event = NoEvent, !.raised = @ \cup {b.event.n}]

\* Mutant of TrimmedHistory: the oldest records are kept.
TrimmedHistory_KeepOldest(h) ==
    IF Len(h) > HistoryCap THEN SubSeq(h, 1, HistoryCap) ELSE h

\* self.blockchain_events[-1000:] when more than the cap are held.
TrimmedHistory(h) ==
    IF Len(h) > HistoryCap
    THEN SubSeq(h, Len(h) - HistoryCap + 1, Len(h))
    ELSE h

\* An emit_* call (one of the five) by any thread.
Emit ==
    /\ bus.emitted < MaxEvents
    /\ CanPut(bus)
    /\ \E ty \in EventTypes : bus' = QueuePut(bus, ty)
    /\ UNCHANGED <<ledgerVars, manager>>

\* stop(): running becomes False (the caller then waits up to five seconds
\* for the thread).
Stop ==
    /\ bus.running
    /\ bus' = [bus EXCEPT !.running = FALSE]
    /\ UNCHANGED <<ledgerVars, manager>>

\* _process_events, line 64: the test of the while loop.
LoopTest ==
    /\ bus.pc = "test"
    /\ bus' = [bus EXCEPT !.pc = IF LoopEnds(bus) THEN "done" ELSE "check"]
    /\ UNCHANGED <<ledgerVars, manager>>

\* _process_events, lines 66-69: take the oldest event if there is one,
\* else sleep and loop.
CheckQueue ==
    /\ bus.pc = "check"
    /\ IF bus.event_queue = <<>>
       THEN bus' = [bus EXCEPT !.pc = "test"]
       ELSE bus' = [bus EXCEPT !.pc = "emit",
                               !.event = QueueGet(bus.event_queue).event,
                               !.event_queue = QueueGet(bus.event_queue).rest]
    /\ UNCHANGED <<ledgerVars, manager>>

\* _broadcast_event, lines 80-83: socketio.emit returns.
SocketEmit ==
    /\ bus.pc = "emit"
    /\ bus' = [bus EXCEPT !.pc = "append", !.socket = Append(@, bus.event)]
    /\ UNCHANGED <<ledgerVars, manager>>

\* _broadcast_event, lines 80-83 and 95-96: socketio.emit raises.
SocketEmitRaises ==
    /\ bus.pc = "emit"
    /\ bus' = AfterRaise(bus)
    /\ UNCHANGED <<ledgerVars, manager>>

\* _broadcast_event, lines 86-89: the record is appended to the history
\* (its 'timestamp', a clock reading no function reads, is left out).
RecordEvent ==
    /\ bus.pc = "append"
    /\ bus' = [bus EXCEPT !.pc = "trim",
                          !.blockchain_events = Append(@, [event |-> bus.event])]
    /\ UNCHANGED <<ledgerVars, manager>>

\* _broadcast_event, lines 92-93, then the sleep of line 69.
TrimHistory ==
    /\ bus.pc = "trim"
    /\ bus' = [bus EXCEPT !.pc = "test", !.event = NoEvent,
                          !.blockchain_events = TrimmedHistory(@)]
    /\ UNCHANGED <<ledgerVars, manager>>

\* The dispatcher thread's steps.
Dispatcher ==
    \/ LoopTest \/ CheckQueue \/ SocketEmit \/ SocketEmitRaises
    \/ RecordEvent \/ TrimHistory

(* --------------------------- event manager --------------------------- *)

\* The types of the events handle_event is given: those of the bus and one
\* that nobody registers a handler for.
ManagerEventTypes == EventTypes \cup {"unknown_type"}

\* An event given to handle_event: its type, and whether it has the 'data'
\* entry the emit_* calls give their events.
ManagerEvents == [type : ManagerEventTypes, has_data : BOOLEAN]

\* _register_default_handlers: the registry after construction.
DefaultHandlers ==
    [ty \in {"certificate_issued", "certificate_verified",
             "certificate_traded", "certificate_retired"} |-> "_handle_" \o ty]

\* A handler registered by a caller of register_handler.
CustomHandler == "custom_handler"

\* self.event_handlers.get(event_type) when the type has no entry.
NoHandler == "None"

NoResult ==
    [event |-> [type |-> "none", has_data |-> FALSE], invoked |-> <<>>,
     handler_raised |-> FALSE, escaped |-> FALSE, logged |-> "none"]

\* BlockchainEventManager.__init__.
NewManager ==
    [event_handlers |-> DefaultHandlers, handled |-> 0, result |-> NoResult]

\* register_handler: self.event_handlers[event_type] = handler.
RegisterHandler(m, event_type, handler) ==
    [m EXCEPT !.event_handlers =
        [ty \in DOMAIN @ \cup {event_type} |->
            IF ty = event_type THEN handler ELSE @[ty]]]

\* self.event_handlers.get(event_type).
HandlerGet(event_handlers, event_type) ==
    IF event_type \in DOMAIN event_handlers THEN event_handlers[event_type]
    ELSE NoHandler

\* Whether the call handler(event) raises.  A default handler reads
\* event['data'], a KeyError when the event has none; what a caller's
\* handler does is its own affair (fails).
HandlerRaises(handler, event, fails) ==
    IF handler = CustomHandler THEN fails ELSE ~event.has_data

\* A handle_event that lets the handler's exception through.
Escapes_Propagates(handler_raised) == handler_raised

\* "except Exception" around the call: whether the handler's exception
\* leaves handle_event.
Escapes(handler_raised) == FALSE

\* handle_event(event): what it invoked, and how it ended.
HandleEvent(m, event, fails) ==
    LET handler == HandlerGet(m.event_handlers, event.type)
        r == HandlerRaises(handler, event, fails)
    IN  IF handler # NoHandler
        THEN [event |-> event, invoked |-> <<handler>>, handler_raised |-> r,
              escaped |-> Escapes(r),
              logged |-> IF r /\ ~Escapes(r) THEN "error" ELSE "none"]
        ELSE [event |-> event, invoked |-> <<>>, handler_raised |-> FALSE,
              escaped |-> FALSE, logged |-> "warning"]

\* A caller registers its handler for a type.
Register ==
    /\ \E ty \in EventTypes :
          manager' = RegisterHandler(manager, ty, CustomHandler)
    /\ UNCHANGED <<ledgerVars, bus>>

\* A caller hands an event to handle_event.
Handle ==
    /\ manager.handled < MaxEvents
    /\ \E event \in ManagerEvents, fails \in BOOLEAN :
          manager' = [manager EXCEPT
                         !.handled = @ + 1,
                         !.result = HandleEvent(manager, event, fails)]
    /\ UNCHANGED <<ledgerVars, bus>>

(* ------------------------- queries on the bus ------------------------ *)

\* Every type is counted once, however many records have it.
EventTypeCounts_Presence(h) ==
    [ty \in {h[i].event.type : i \in 1..Len(h)} |-> 1]

\* _get_event_type_counts: a dictionary from the types that occur in the
\* history to the number of records of that type, built record by record
\* (counts[event_type] = counts.get(event_type, 0) + 1).
RECURSIVE EventTypeCounts(_)
EventTypeCounts(h) ==
    IF h = <<>> THEN [ty \in {} |-> 0]
    ELSE LET counts == EventTypeCounts(SubSeq(h, 1, Len(h) - 1))
             event_type == h[Len(h)].event.type
         IN  [ty \in DOMAIN counts \cup {event_type} |->
                 IF ty = event_type
                 THEN (IF ty \in DOMAIN counts THEN counts[ty] ELSE 0) + 1
                 ELSE counts[ty]]

\* get_live_statistics: the entries computed from the history (the other
\* two, active_connections and web3_connected, are read from connection
\* state that is no part of the bus record).
GetLiveStatistics(b) ==
    [total_events |-> Len(b.blockchain_events),
     last_event   |-> IF b.blockchain_events # <<>>
                      THEN b.blockchain_events[Len(b.blockchain_events)]
                      ELSE None,
     event_types  |-> EventTypeCounts(b.blockchain_events)]

\* The slice s[i:] of a Python list: a negative i counts from the end, and
\* an index beyond either end is clipped.
SliceFrom(s, i) ==
    LET start == IF i < 0
                 THEN (IF Len(s) + i > 0 THEN Len(s) + i ELSE 0)
                 ELSE (IF i < Len(s) THEN i ELSE Len(s))
    IN  SubSeq(s, start + 1, Len(s))

\* The list comprehension of get_event_history: the records of one type.
RECURSIVE OfType(_, _)
OfType(h, event_type) ==
    IF h = <<>> THEN <<>>
    ELSE IF Head(h).event.type = event_type
         THEN <<Head(h)>> \o OfType(Tail(h), event_type)
         ELSE OfType(Tail(h), event_type)

\* An event_type that is false in "if event_type": None or the empty
\* string, which ask for no filter.
NoType == ""

\* get_event_history(event_type, limit).
GetEventHistory(h, event_type, limit) ==
    LET events == IF event_type # NoType THEN OfType(h, event_type) ELSE h
    IN  IF events # <<>> THEN SliceFrom(events, 0 - limit) ELSE <<>>

(* ---------------------------- initial state --------------------------- *)

\* Mutant of GenesisBlock: the first block gets index 1.
GenesisBlock_IndexOne(t) == NewBlock(1, t, GenesisData(t), ZeroHash, 0)

\* GreenChain(...) when storage_file does not exist: load_blockchain leaves
\* the chain empty, create_genesis_block appends the Genesis block (built
\* by the constructor, nonce 0; mine_block is not called) and saves.
GenesisBlock(t) == NewBlock(0, t, GenesisData(t), ZeroHash, 0)

Init ==
    \E t \in Times :
        /\ chain = <<GenesisBlock(t)>>
        /\ certificates = <<>>
        /\ retired_certificates = {}
        /\ disk = Document(<<GenesisBlock(t)>>, <<>>, {})
        /\ last = Call("init", UnknownHash, None, NoData, TRUE, FALSE)
        /\ tamper = NoTamper
        /\ threads = [th \in Threads |-> IdleThread]
        /\ bus = NewBus
        /\ manager = NewManager

(* ---------------------------- ledger writes --------------------------- *)

\* The ledger object and its storage document, as one value.
Ledger ==
    [chain |-> chain, certificates |-> certificates,
     retired_certificates |-> retired_certificates, disk |-> disk]

\* save_blockchain on ledger L.
Save(L) ==
    [L EXCEPT !.disk = Document(L.chain, L.certificates, L.retired_certificates)]

\* add_block: validate, append, save; the result and the ledger after it.
AddBlock(L, block) ==
    IF IsValidBlock(L.chain, block)
    THEN [ok |-> TRUE, L |-> Save([L EXCEPT !.chain = AppendBlock(L.chain, block)])]
    ELSE [ok |-> FALSE, L |-> L]

\* Mutant of IssueCertificate: the id is compared with the index only
\* after the block was mined and appended.
IssueCertificate_CheckAfterAppend(L, id, data, t) ==
    LET cd == CertificateData(id, data, t)
        nb == MineBlock(L.chain, cd, t)
        a  == AddBlock(L, nb)
    IN
    IF a.ok /\ id \notin CertKeys(L.certificates)
    THEN [raised |-> FALSE, hash |-> nb.hash,
          L |-> [a.L EXCEPT !.certificates =
                    CertStore(a.L.certificates, id,
                              [hash |-> nb.hash, block_index |-> nb.index,
                               data |-> cd, status |-> "active"])]]
    ELSE [raised |-> TRUE, hash |-> UnknownHash, L |-> a.L]

\* Mutant of IssueCertificate: no check that the id is new.
IssueCertificate_NoDuplicateCheck(L, id, data, t) ==
    LET cd == CertificateData(id, data, t)
        nb == MineBlock(L.chain, cd, t)
        a  == AddBlock(L, nb)
    IN
    IF a.ok
    THEN [raised |-> FALSE, hash |-> nb.hash,
          L |-> [a.L EXCEPT !.certificates =
                    CertStore(a.L.certificates, id,
                              [hash |-> nb.hash, block_index |-> nb.index,
                               data |-> cd, status |-> "active"])]]
    ELSE [raised |-> TRUE, hash |-> UnknownHash, L |-> a.L]

\* issue_certificate(data) with uuid4() = id at clock reading t: the hash
\* returned (or raised = TRUE) and the ledger after the call.  add_block
\* saves before the index is updated.
IssueCertificate(L, id, data, t) ==
    LET cd == CertificateData(id, data, t)
        nb == MineBlock(L.chain, cd, t)
        a  == AddBlock(L, nb)
    IN
    IF id \in CertKeys(L.certificates)
    THEN [raised |-> TRUE, hash |-> UnknownHash, L |-> L]
    ELSE IF a.ok
    THEN [raised |-> FALSE, hash |-> nb.hash,
          L |-> [a.L EXCEPT !.certificates =
                    CertStore(a.L.certificates, id,
                              [hash |-> nb.hash, block_index |-> nb.index,
                               data |-> cd, status |-> "active"])]]
    ELSE [raised |-> TRUE, hash |-> UnknownHash, L |-> a.L]

\* Mutant of MarkRetired: the certificate is taken out of the index.
MarkRetired_Deletes(L, id) ==
    [L EXCEPT !.retired_certificates = L.retired_certificates \cup {id},
              !.certificates = SelectSeq(L.certificates,
                                         LAMBDA e : e.id # id)]

\* Mutant of MarkRetired: the status is set, the id is not added to the
\* retired set.
MarkRetired_StatusOnly(L, id) ==
    [L EXCEPT !.certificates = CertStore(L.certificates, id,
                                  [CertInfo(L.certificates, id)
                                      EXCEPT !.status = "retired"])]

\* The two marking statements of retire_certificate.
MarkRetired(L, id) ==
    [L EXCEPT !.retired_certificates = L.retired_certificates \cup {id},
              !.certificates = CertStore(L.certificates, id,
                                  [CertInfo(L.certificates, id)
                                      EXCEPT !.status = "retired"])]

\* Mutant of RetireCertificate: the certificate is marked and no
\* retirement block is mined.
RetireCertificate_NoBlock(L, h, t) ==
    LET p  == FindByHash(L.certificates, h)
        id == L.certificates[p].id
    IN
    IF p = 0 THEN [ok |-> FALSE, id |-> None, L |-> L]
    ELSE IF id \in L.retired_certificates THEN [ok |-> FALSE, id |-> id, L |-> L]
    ELSE [ok |-> TRUE, id |-> id, L |-> Save(MarkRetired(L, id))]

\* Mutant of RetireCertificate: no check that the certificate is retired
\* already.
RetireCertificate_NoRetiredCheck(L, h, t) ==
    LET p  == FindByHash(L.certificates, h)
        id == L.certificates[p].id
        M  == MarkRetired(L, id)
        rb == MineBlock(M.chain, RetirementData(id, h, t), t)
        a  == AddBlock(M, rb)
    IN
    IF p = 0
    THEN [ok |-> FALSE, id |-> None, L |-> L]
    ELSE [ok |-> a.ok, id |-> id, L |-> a.L]

\* retire_certificate(h) at clock reading t: the value returned, the
\* certificate found (None if none) and the ledger after the call.
RetireCertificate(L, h, t) ==
    LET p  == FindByHash(L.certificates, h)
        id == L.certificates[p].id
        M  == MarkRetired(L, id)
        rb == MineBlock(M.chain, RetirementData(id, h, t), t)
        a  == AddBlock(M, rb)
    IN
    IF p = 0
    THEN [ok |-> FALSE, id |-> None, L |-> L]
    ELSE IF id \in L.retired_certificates
    THEN [ok |-> FALSE, id |-> id, L |-> L]
    ELSE [ok |-> a.ok, id |-> id, L |-> a.L]

\* The ledger variables take the value L.  A save by a ledger that never
\* loaded an altered document writes the document anew, unaltered.
Becomes(L) ==
    /\ chain' = L.chain
    /\ certificates' = L.certificates
    /\ retired_certificates' = L.retired_certificates
    /\ disk' = L.disk
    /\ tamper' = IF L.disk # disk /\ tamper.loads = 0 THEN NoTamper ELSE tamper

\* The readings the clock may give now: wall-clock time does not run
\* backwards between two calls, so none is earlier than the tip's timestamp.
Clock ==
    {t \in Times : chain = <<>> \/ t >= GetLatestBlock(chain).timestamp}

\* Whether the chain may still grow under the bound.
Room == Len(chain) < MaxBlocks

\* issue_certificate(data).  The call raises on a duplicate id before it
\* reads the clock (the reading is then immaterial: the first of Times).
Issue ==
    \E id \in CertIds, data \in CertInputs :
        \E t \in (IF id \in CertKeys(certificates) THEN {1} ELSE Clock) :
            /\ (id \notin CertKeys(certificates)) => Room
            /\ \E r \in {IssueCertificate(Ledger, id, data, t)} :
                /\ Len(r.L.chain) <= MaxBlocks
                /\ Becomes(r.L)
                /\ last' = Call("issue", r.hash, id, data, ~r.raised, r.raised)
                /\ UNCHANGED <<threads, bus, manager>>

\* Whether retire_certificate(h) returns at once: no certificate has hash h,
\* or the one that has is retired already.
RetireRejects(h) ==
    \/ FindByHash(certificates, h) = 0
    \/ certificates[FindByHash(certificates, h)].id \in retired_certificates

\* retire_certificate(h).  A rejected call reads no clock.
Retire ==
    \E h \in KnownHashes :
        \E t \in (IF RetireRejects(h) THEN {1} ELSE Clock) :
            /\ (~RetireRejects(h)) => Room
            /\ \E r \in {RetireCertificate(Ledger, h, t)} :
                /\ Len(r.L.chain) <= MaxBlocks
                /\ Becomes(r.L)
                /\ last' = Call("retire", h, r.id, NoData, r.ok, FALSE)
                /\ UNCHANGED <<threads, bus, manager>>

(* ------------------- storage document: alter, reload ------------------ *)

\* load_blockchain on document doc, then __init__'s check for an empty
\* chain: the ledger a new GreenChain holds.  The stored hash of each block
\* and the stored index and retired list are taken as they are.
LoadBlockchain(doc) ==
    [chain |-> [i \in 1..Len(doc.chain) |-> FromDict(doc.chain[i])],
     certificates |-> doc.certificates,
     retired_certificates |-> doc.retired_certificates,
     disk |-> doc]

\* GreenChain(storage_file = the document's path): a ledger re-initialized
\* from the storage document.
Reload ==
    \E t \in Clock :
        LET L == LoadBlockchain(disk)
            G == [L EXCEPT !.chain = <<GenesisBlock(t)>>]
        IN /\ IF Len(L.chain) = 0
              THEN /\ chain' = G.chain
                   /\ disk' = Save(G).disk
              ELSE /\ chain' = L.chain
                   /\ disk' = disk
           /\ certificates' = L.certificates
           /\ retired_certificates' = L.retired_certificates
           /\ last' = Call("load", UnknownHash, None, NoData, TRUE, FALSE)
           /\ UNCHANGED <<threads, bus, manager>>
           /\ tamper' = IF tamper.what = "none" THEN tamper
                        ELSE [tamper EXCEPT !.loads = IF @ < 2 THEN @ + 1 ELSE @]

\* A payload that differs from d in one field.
AlteredPayload(d) ==
    CASE d.type = "genesis" -> [d EXCEPT !.message = "altered"]
      [] d.type = "hydrogen_credit_certificate" ->
            [d EXCEPT !.tokens_generated = @ + 1]
      [] d.type = "certificate_retirement" -> [d EXCEPT !.reason = "altered"]

\* A previous_hash that differs from h.
AlteredHash(h) == IF h = UnknownHash THEN ZeroHash ELSE UnknownHash

\* Someone edits the storage file: the payload of one stored block is
\* changed, its other fields (the stored hash too) are left as they are.
AlterPayload ==
    /\ tamper = NoTamper
    /\ \E i \in 1..Len(disk.chain) :
          /\ disk' = [disk EXCEPT !.chain[i].data = AlteredPayload(@)]
          /\ tamper' = [what |-> "payload", block |-> i, loads |-> 0]
    /\ UNCHANGED <<chain, certificates, retired_certificates, last, threads, bus, manager>>

\* Someone edits the storage file: the previous_hash of one stored block is
\* changed.
AlterPreviousHash ==
    /\ tamper = NoTamper
    /\ \E i \in 1..Len(disk.chain) :
          /\ disk' = [disk EXCEPT !.chain[i].previous_hash = AlteredHash(@)]
          /\ tamper' = [what |-> "previous_hash", block |-> i, loads |-> 0]
    /\ UNCHANGED <<chain, certificates, retired_certificates, last, threads, bus, manager>>

(* ------------------- ledger writes, statement by statement ------------ *)

\* Two request threads call into the one global ledger.  No statement of
\* green_chain.py takes a lock, so a thread switch may fall between any two
\* of the steps below.  What a call returns is kept in the thread's record
\* (`last` belongs to the single-threaded specifications).

\* Calls in flight, each of which may still append a block.
InFlight == {th \in Threads : threads[th].pc # "idle"}

\* issue_certificate, lines 218-240: draw the id, check it against the
\* index, build the payload (its clock reading is taken with the block's).
CallIssue(th) ==
    /\ threads[th].pc = "idle"
    /\ \E id \in CertIds, data \in CertInputs :
          IF id \in CertKeys(certificates)
          THEN threads' = [threads EXCEPT ![th] =
                   [IdleThread EXCEPT !.op = "issue", !.id = id,
                                      !.ret = "raised"]]
          ELSE /\ Len(chain) + Cardinality(InFlight) < MaxBlocks
               /\ threads' = [threads EXCEPT ![th] =
                      [IdleThread EXCEPT !.pc = "mine", !.op = "issue",
                                         !.id = id, !.data = data]]
    /\ UNCHANGED <<chain, certificates, retired_certificates, disk, last, tamper, bus, manager>>

\* retire_certificate, lines 328-332: look the hash up, check the retired set.
CallRetire(th) ==
    /\ threads[th].pc = "idle"
    /\ \E h \in KnownHashes :
          LET p  == FindByHash(certificates, h)
              id == certificates[p].id
          IN
          IF p = 0
          THEN threads' = [threads EXCEPT ![th] =
                   [IdleThread EXCEPT !.op = "retire", !.hash = h,
                                      !.ret = "False"]]
          ELSE IF id \in retired_certificates
          THEN threads' = [threads EXCEPT ![th] =
                   [IdleThread EXCEPT !.op = "retire", !.hash = h, !.id = id,
                                      !.ret = "False"]]
          ELSE /\ Len(chain) + Cardinality(InFlight) < MaxBlocks
               /\ threads' = [threads EXCEPT ![th] =
                      [IdleThread EXCEPT !.pc = "mark", !.op = "retire",
                                         !.hash = h, !.id = id]]
    /\ UNCHANGED <<chain, certificates, retired_certificates, disk, last, tamper, bus, manager>>

\* retire_certificate, lines 335-336: mark the certificate retired.
MarkStep(th) ==
    /\ threads[th].pc = "mark"
    /\ LET M == MarkRetired(Ledger, threads[th].id)
       IN /\ retired_certificates' = M.retired_certificates
          /\ certificates' = M.certificates
    /\ threads' = [threads EXCEPT ![th].pc = "mine"]
    /\ UNCHANGED <<chain, disk, last, tamper, bus, manager>>

\* The payload of the call thread th is in, at clock reading t.
Payload(th, t) ==
    IF threads[th].op = "issue"
    THEN CertificateData(threads[th].id, threads[th].data, t)
    ELSE RetirementData(threads[th].id, threads[th].hash, t)

\* mine_block: read the tip, seal a block on it.
MineStep(th) ==
    /\ threads[th].pc = "mine"
    /\ \E t \in Clock :
          threads' = [threads EXCEPT
                         ![th].pc = "validate",
                         ![th].block = MineBlock(chain, Payload(th, t), t)]
    /\ UNCHANGED <<chain, certificates, retired_certificates, disk, last, tamper, bus, manager>>

\* add_block, line 163: is_valid_block against the chain as it is now.  On
\* failure issue_certificate raises and retire_certificate returns False.
ValidateStep(th) ==
    /\ threads[th].pc = "validate"
    /\ IF IsValidBlock(chain, threads[th].block)
       THEN threads' = [threads EXCEPT ![th].pc = "append"]
       ELSE threads' = [threads EXCEPT
                           ![th].pc = "idle",
                           ![th].ret = IF threads[th].op = "issue"
                                       THEN "raised" ELSE "False"]
    /\ UNCHANGED <<chain, certificates, retired_certificates, disk, last, tamper, bus, manager>>

\* add_block, line 164: append.
AppendStep(th) ==
    /\ threads[th].pc = "append"
    /\ chain' = AppendBlock(chain, threads[th].block)
    /\ threads' = [threads EXCEPT ![th].pc = "save"]
    /\ UNCHANGED <<certificates, retired_certificates, disk, last, tamper, bus, manager>>

\* add_block, line 166: save_blockchain; retire_certificate then returns True.
SaveStep(th) ==
    /\ threads[th].pc = "save"
    /\ disk' = Document(chain, certificates, retired_certificates)
    /\ IF threads[th].op = "issue"
       THEN threads' = [threads EXCEPT ![th].pc = "store"]
       ELSE threads' = [threads EXCEPT ![th].pc = "idle", ![th].ret = "True"]
    /\ UNCHANGED <<chain, certificates, retired_certificates, last, tamper, bus, manager>>

\* issue_certificate, lines 248-259: store the certificate, return the hash.
StoreStep(th) ==
    /\ threads[th].pc = "store"
    /\ certificates' = CertStore(certificates, threads[th].id,
                          [hash |-> threads[th].block.hash,
                           block_index |-> threads[th].block.index,
                           data |-> threads[th].block.data,
                           status |-> "active"])
    /\ threads' = [threads EXCEPT ![th].pc = "idle", ![th].ret = "hash",
                                  ![th].hash = threads[th].block.hash]
    /\ UNCHANGED <<chain, retired_certificates, disk, last, tamper, bus, manager>>

(* ----------------------- export, import and reset --------------------- *)

\* export_chain: the to_dict of every block, in order.
ExportChain(ch) == [i \in 1..Len(ch) |-> ToDict(ch[i])]

\* Whether a record of chain_data has the keys import_chain reads.
HasBlockKeys(d) ==
    {"index", "timestamp", "data", "previous_hash", "nonce", "hash"}
        \subseteq DOMAIN d

\* Position of the first record that lacks a key (0 when none does): there
\* the first loop of import_chain raises KeyError.
FirstBadRecord(cd) ==
    LET bad == {i \in 1..Len(cd) : ~HasBlockKeys(cd[i])}
    IN IF bad = {} THEN 0 ELSE CHOOSE i \in bad : \A j \in bad : i <= j

\* Mutant of ReplayBlock: a retirement block adds the id to the retired set
\* and leaves the status of the certificate as it is.
ReplayBlock_KeepStatus(ix, block) ==
    IF block.data.type = "hydrogen_credit_certificate"
    THEN [ix EXCEPT !.certificates =
             CertStore(ix.certificates, block.data.certificate_id,
                       [hash |-> block.hash, block_index |-> block.index,
                        data |-> block.data, status |-> "active"])]
    ELSE IF block.data.type = "certificate_retirement"
    THEN [ix EXCEPT !.retired_certificates = @ \cup {block.data.certificate_id}]
    ELSE ix

\* One turn of the second loop of import_chain: what one block does to the
\* index and the retired set being rebuilt.
ReplayBlock(ix, block) ==
    IF block.data.type = "hydrogen_credit_certificate"
    THEN [ix EXCEPT !.certificates =
             CertStore(ix.certificates, block.data.certificate_id,
                       [hash |-> block.hash, block_index |-> block.index,
                        data |-> block.data, status |-> "active"])]
    ELSE IF block.data.type = "certificate_retirement"
    THEN [ix EXCEPT
             !.retired_certificates = @ \cup {block.data.certificate_id},
             !.certificates =
                 IF block.data.certificate_id \in CertKeys(ix.certificates)
                 THEN CertStore(ix.certificates, block.data.certificate_id,
                          [CertInfo(ix.certificates, block.data.certificate_id)
                              EXCEPT !.status = "retired"])
                 ELSE ix.certificates]
    ELSE ix

\* The second loop of import_chain over the blocks from position i on.
RECURSIVE Replay(_, _, _)
Replay(blocks, i, ix) ==
    IF i > Len(blocks) THEN ix
    ELSE Replay(blocks, i + 1, ReplayBlock(ix, blocks[i]))

\* Position of the first block whose payload is of one of the two types the
\* second loop of import_chain reads 'certificate_id' from and has no such
\* entry (0 when there is none): there the second loop raises KeyError.
FirstBadPayload(blocks) ==
    LET bad == {i \in 1..Len(blocks) :
                   /\ blocks[i].data.type \in {"hydrogen_credit_certificate",
                                               "certificate_retirement"}
                   /\ "certificate_id" \notin DOMAIN blocks[i].data}
    IN IF bad = {} THEN 0 ELSE CHOOSE i \in bad : \A j \in bad : i <= j

\* import_chain(chain_data): the value returned and the ledger after the
\* call.  The chain is emptied first; a record that lacks a key ends the call
\* in the except branch, with the blocks built so far as the chain and
\* nothing saved; a payload without 'certificate_id' ends it in the second
\* loop, with the whole list as the chain and the index and the retired
\* set rebuilt up to that block.
ImportChain(L, cd) ==
    LET bad    == FirstBadRecord(cd)
        n      == IF bad = 0 THEN Len(cd) ELSE bad - 1
        blocks == [i \in 1..n |-> FromDict(cd[i])]
        bad2   == FirstBadPayload(blocks)
        m      == IF bad2 = 0 THEN n ELSE bad2 - 1
        ix     == Replay(SubSeq(blocks, 1, m), 1,
                         [certificates |-> <<>>, retired_certificates |-> {}])
    IN
    IF bad # 0
    THEN [ok |-> FALSE, L |-> [L EXCEPT !.chain = blocks]]
    ELSE IF bad2 # 0
    THEN [ok |-> FALSE,
          L |-> [L EXCEPT !.chain = blocks,
                          !.certificates = ix.certificates,
                          !.retired_certificates = ix.retired_certificates]]
    ELSE [ok |-> TRUE,
          L |-> Save([L EXCEPT !.chain = blocks,
                               !.certificates = ix.certificates,
                               !.retired_certificates = ix.retired_certificates])]

\* reset_blockchain at clock reading t: everything is emptied, then
\* create_genesis_block appends a new Genesis block and saves.
ResetBlockchain(L, t) ==
    Save([L EXCEPT !.chain = <<GenesisBlock(t)>>,
                   !.certificates = <<>>,
                   !.retired_certificates = {}])

\* The backups a caller may hand to import_chain: what export_chain returns
\* now, and what it returned when the chain was shorter.
ImportInputs == {SubSeq(ExportChain(chain), 1, k) : k \in 1..Len(chain)}

\* The sub-lists of a list of records: one per set of positions kept.
SubLists(cd) ==
    {[i \in 1..Cardinality(keep) |->
         cd[CHOOSE k \in keep : Cardinality({j \in keep : j < k}) = i - 1]]
       : keep \in SUBSET (1..Len(cd))}

\* A record without one of its keys.
WithoutKey(d, key) == [f \in DOMAIN d \ {key} |-> d[f]]

\* Block lists in which one record is malformed: it has no 'nonce', or its
\* payload has no 'certificate_id'.
Malformed(cd) ==
    {[cd EXCEPT ![k] = WithoutKey(@, "nonce")] : k \in 1..Len(cd)}
      \cup {[cd EXCEPT ![k].data = WithoutKey(@, "certificate_id")]
               : k \in {i \in 1..Len(cd) : cd[i].data.type # "genesis"}}

\* Any block list a caller may hand to import_chain, which checks nothing:
\* here the export with blocks left out, or with one malformed record.
AnyBlockLists == SubLists(ExportChain(chain)) \cup Malformed(ExportChain(chain))

\* The ledger is as its own writes leave it: the chain starts with a
\* Genesis block, every block has its position as index and its
\* predecessor's hash as previous_hash, and the index, the retired set and
\* the storage document are what importing the ledger's export gives.
OwnLedger ==
    /\ chain # <<>>
    /\ chain[1].data.type = "genesis"
    /\ \A i \in 1..Len(chain) :
          /\ chain[i].index = i - 1
          /\ i > 1 => chain[i].previous_hash = chain[i - 1].hash
    /\ ImportChain(Ledger, ExportChain(chain)).L = Ledger

\* import_chain(chain_data) of any block list, called on a ledger that is
\* as its own writes left it (which keeps the exploration small: what such
\* an import leaves behind is not exported and imported again).
ImportAny ==
    /\ OwnLedger
    /\ \E cd \in AnyBlockLists :
        \E r \in {ImportChain(Ledger, cd)} :
            /\ Becomes(r.L)
            /\ last' = Call("import", UnknownHash, None, NoData, r.ok, FALSE)
            /\ UNCHANGED <<threads, bus, manager>>

\* reset_blockchain()
Reset ==
    \E t \in Clock :
        /\ Becomes(ResetBlockchain(Ledger, t))
        /\ last' = Call("reset", UnknownHash, None, NoData, TRUE, FALSE)
        /\ UNCHANGED <<threads, bus, manager>>

\* import_chain(chain_data)
Import ==
    \E cd \in ImportInputs :
        \E r \in {ImportChain(Ledger, cd)} :
            /\ Becomes(r.L)
            /\ last' = Call("import", UnknownHash, None, NoData, r.ok, FALSE)
            /\ UNCHANGED <<threads, bus, manager>>

(* ------------------------ a save that fails --------------------------- *)

\* save_blockchain when opening or writing storage_file raises: the except
\* branch prints and returns, and the file holds what it held before.
SaveFails(L, held) == [L EXCEPT !.disk = held]

\* issue_certificate(data) whose save_blockchain (in add_block) fails.
IssueSaveFails ==
    \E id \in CertIds, data \in CertInputs :
        \E t \in Clock :
            /\ id \notin CertKeys(certificates)
            /\ Room
            /\ \E r \in {IssueCertificate(Ledger, id, data, t)} :
                /\ Becomes(SaveFails(r.L, disk))
                /\ last' = Call("issue", r.hash, id, data, ~r.raised, r.raised)
                /\ UNCHANGED <<threads, bus, manager>>

\* retire_certificate(h) whose save_blockchain (in add_block) fails.
RetireSaveFails ==
    \E h \in KnownHashes :
        \E t \in Clock :
            /\ ~RetireRejects(h)
            /\ Room
            /\ \E r \in {RetireCertificate(Ledger, h, t)} :
                /\ Becomes(SaveFails(r.L, disk))
                /\ last' = Call("retire", h, r.id, NoData, r.ok, FALSE)
                /\ UNCHANGED <<threads, bus, manager>>

(* ------------------- request handlers that emit events --------------- *)

\* submit_production (app.py): issue_certificate on a dictionary that has
\* every field, then, if it did not raise, emit_certificate_issued.
SubmitProduction ==
    /\ bus.emitted < MaxEvents
    /\ \E id \in CertIds, data \in {FullData} :
          \E t \in (IF id \in CertKeys(certificates) THEN {1} ELSE Clock) :
              /\ (id \notin CertKeys(certificates)) => Room
              /\ \E r \in {IssueCertificate(Ledger, id, data, t)} :
                    /\ Becomes(r.L)
                    /\ last' = Call("issue", r.hash, id, data, ~r.raised, r.raised)
                    /\ IF r.raised
                       THEN bus' = bus
                       ELSE CanPut(bus) /\ bus' = QueuePut(bus, "certificate_issued")
                    /\ UNCHANGED <<threads, manager>>

\* buy_credit (app.py): emit_certificate_traded, then retire_certificate
\* for the hash kept with the credit.
BuyCredit ==
    /\ bus.emitted < MaxEvents
    /\ CanPut(bus)
    /\ \E h \in KnownHashes :
          \E t \in (IF RetireRejects(h) THEN {1} ELSE Clock) :
              /\ (~RetireRejects(h)) => Room
              /\ \E r \in {RetireCertificate(Ledger, h, t)} :
                    /\ bus' = QueuePut(bus, "certificate_traded")
                    /\ Becomes(r.L)
                    /\ last' = Call("retire", h, r.id, NoData, r.ok, FALSE)
                    /\ UNCHANGED <<threads, manager>>

(* ---------------------------- specification --------------------------- *)

\* One thread calling issue_certificate / retire_certificate on a ledger
\* built without a storage document.  The queries (verify_certificate, ...)
\* change no state: they are the operators above, applied to the state.
Next == Issue \/ Retire

Spec == Init /\ [][Next]_vars

\* The same ledger, whose storage file may be edited from outside (one block,
\* once) and which may be re-initialized from the file.
NextStorage == Issue \/ Retire \/ AlterPayload \/ AlterPreviousHash \/ Reload

SpecStorage == Init /\ [][NextStorage]_vars

\* Two threads, each making ledger calls one after the other, their
\* statements interleaved.
NextThreads ==
    \E th \in Threads :
        \/ CallIssue(th)
        \/ CallRetire(th)
        \/ MarkStep(th)
        \/ MineStep(th)
        \/ ValidateStep(th)
        \/ AppendStep(th)
        \/ SaveStep(th)
        \/ StoreStep(th)

SpecThreads == Init /\ [][NextThreads]_vars

\* One thread, on a storage file that cannot always be written.
NextDisk == Issue \/ Retire \/ IssueSaveFails \/ RetireSaveFails

SpecDisk == Init /\ [][NextDisk]_vars

\* The request handlers of the web layer that write to the ledger and emit,
\* with the dispatcher running beside them.
NextApp == SubmitProduction \/ BuyCredit \/ Dispatcher

SpecApp == Init /\ [][NextApp]_vars

\* The event manager: callers of register_handler and handle_event.
NextManager == Register \/ Handle

SpecManager == Init /\ [][NextManager]_vars

\* The event bus: threads that call emit_* and stop(), and the dispatcher.
NextBus == Emit \/ Stop \/ Dispatcher

SpecBus == Init /\ [][NextBus]_vars

\* The thread scheduler lets the dispatcher thread run again and again, and
\* a call of socketio.emit ends (it returns or raises).
SpecBusFair == SpecBus /\ WF_vars(Dispatcher)

\* One thread that calls import_chain with block lists of any kind.
NextImport == Issue \/ Retire \/ Reset \/ ImportAny

SpecImport == Init /\ [][NextImport]_vars

\* One thread that also calls reset_blockchain and import_chain.
NextAdmin == Issue \/ Retire \/ Reset \/ Import

SpecAdmin == Init /\ [][NextAdmin]_vars

(* ------------------------- derived state views ----------------------- *)

\* Positions of the chain that hold an issuance block for id.
IssuedAt(ch, id) ==
    {i \in 1..Len(ch) : /\ ch[i].data.type = "hydrogen_credit_certificate"
                        /\ ch[i].data.certificate_id = id}

\* Positions of the chain that hold a retirement block for id.
RetiredAt(ch, id) ==
    {i \in 1..Len(ch) : /\ ch[i].data.type = "certificate_retirement"
                        /\ ch[i].data.certificate_id = id}

\* The fields a caller submits to issue_certificate.
SubmittedFields ==
    {"seller_id", "facility_name", "hydrogen_weight_kg", "tokens_generated",
     "renewable_source", "production_date", "location", "certification_type",
     "price_per_token"}

\* Whether a verify result is the "retired" rejection.
IsRetiredAnswer(r) ==
    /\ r.valid = FALSE
    /\ "status" \in DOMAIN r.info
    /\ r.info.status = "retired"

(* ------------------------------- claims ------------------------------- *)

\* C1: sequential retire_certificate(h) calls for a certificate with hash h
\* succeed exactly once.  A call made while the certificate is not yet retired
\* returns True and appends exactly one certificate_retirement block for it;
\* a call made once it is retired returns False and leaves the chain, the
\* certificate index and the retired set unchanged.
C1_RetireOnce ==
    [][(last'.op = "retire" /\ last'.id # None) =>
          IF last'.id \in retired_certificates
          THEN /\ last'.ok = FALSE
               /\ chain' = chain
               /\ certificates' = certificates
               /\ retired_certificates' = retired_certificates
          ELSE /\ last'.ok = TRUE
               /\ Len(chain') = Len(chain) + 1
               /\ SubSeq(chain', 1, Len(chain)) = chain
               /\ chain'[Len(chain')].data.type = "certificate_retirement"
               /\ chain'[Len(chain')].data.certificate_id = last'.id
               /\ RetiredAt(chain', last'.id) = {Len(chain')}]_vars

\* C1 witness: a second retire of a retired certificate was rejected.
C1_Witness ==
    /\ last.op = "retire"
    /\ last.ok = FALSE
    /\ last.id \in retired_certificates
    /\ RetiredAt(chain, last.id) # {}

\* C2: right after issue_certificate(data) returned h, verify_certificate(h)
\* is (True, payload), the payload being the record stored for h, and it
\* carries each submitted value (None for a field the caller left out).
C2_IssueThenVerify ==
    (last.op = "issue" /\ last.ok) =>
        LET r == VerifyCertificate(chain, certificates, retired_certificates,
                                   last.hash)
        IN /\ r.valid = TRUE
           /\ last.id \in CertKeys(certificates)
           /\ CertInfo(certificates, last.id).hash = last.hash
           /\ r.info = CertInfo(certificates, last.id).data
           /\ r.info.certificate_id = last.id
           /\ \A k \in SubmittedFields : r.info[k] = Get(last.data, k)

\* C2 witness: a certificate was issued from a dict that lacks fields, and
\* verifies.
C2_Witness ==
    /\ last.op = "issue"
    /\ last.ok
    /\ last.data = PartialData
    /\ VerifyCertificate(chain, certificates, retired_certificates, last.hash).valid

\* C3: from a fresh ledger, is_chain_valid() is True after any sequence of
\* issue_certificate / retire_certificate calls.
C3_ChainValid == IsChainValid(chain)

\* C3 witness: an issue and a retire have both appended a block.
C3_Witness ==
    /\ Len(chain) >= 3
    /\ last.op = "retire"
    /\ last.ok
    /\ IsChainValid(chain)

\* C4: every block at position i > 0 has index i and the hash of the block
\* at position i-1 as its previous_hash (positions counted from 0).
C4_Linked ==
    \A i \in 2..Len(chain) :
        /\ chain[i].index = i - 1
        /\ chain[i].previous_hash = chain[i - 1].hash

\* C4 witness: the chain holds the Genesis block and two linked blocks.
C4_Witness ==
    /\ Len(chain) >= 3
    /\ chain[3].index = 2
    /\ chain[3].previous_hash = chain[2].hash

\* The state part of C5.
C5_State ==
    /\ \A id \in CertKeys(certificates) : Cardinality(IssuedAt(chain, id)) = 1
    /\ \A id \in CertIds :
          /\ Cardinality(RetiredAt(chain, id)) <= 1
          /\ \A j \in RetiredAt(chain, id) :
                \E i \in IssuedAt(chain, id) : i < j

\* C5: the chain holds exactly one issuance block per id of the index and at
\* most one retirement block per id; a retirement block comes after the id's
\* issuance block, and at the step that appends it the certificate is in the
\* index and not in the retired set.
C5_OneIssueOneRetire ==
    [][/\ C5_State'
       /\ (/\ Len(chain') = Len(chain) + 1
           /\ chain'[Len(chain')].data.type = "certificate_retirement")
          => /\ chain'[Len(chain')].data.certificate_id \in CertKeys(certificates)
             /\ chain'[Len(chain')].data.certificate_id \notin retired_certificates
             /\ CertInfo(certificates,
                         chain'[Len(chain')].data.certificate_id).status = "active"
      ]_vars

\* C5 witness: a certificate has its issuance block and, later, its
\* retirement block.
C5_Witness ==
    \E id \in CertKeys(certificates) :
        /\ Cardinality(IssuedAt(chain, id)) = 1
        /\ Cardinality(RetiredAt(chain, id)) = 1
        /\ id \in retired_certificates

\* C10: for every certificate of the index whose id is in the retired set,
\* verify_certificate(hash) and verify_certificate_by_id(id) return
\* (False, info) with info.status = 'retired'; and right after a successful
\* retire_certificate(h) the certificate found for h is in the retired set.
C10_RetiredRejected ==
    /\ \A i \in 1..Len(certificates) :
          certificates[i].id \in retired_certificates =>
             /\ IsRetiredAnswer(VerifyCertificate(chain, certificates,
                    retired_certificates, certificates[i].info.hash))
             /\ IsRetiredAnswer(VerifyCertificateById(chain, certificates,
                    retired_certificates, certificates[i].id))
    /\ (last.op = "retire" /\ last.ok) =>
          /\ last.id \in retired_certificates
          /\ IsRetiredAnswer(VerifyCertificate(chain, certificates,
                 retired_certificates, last.hash))
          /\ IsRetiredAnswer(VerifyCertificateById(chain, certificates,
                 retired_certificates, last.id))

\* C10 witness: a retire has just succeeded and verification by hash answers
\* "retired".
C10_Witness ==
    /\ last.op = "retire"
    /\ last.ok
    /\ IsRetiredAnswer(VerifyCertificate(chain, certificates,
           retired_certificates, last.hash))

\* The ledger has just been re-initialized from a document in which one
\* block was altered, that document having been written by a ledger that
\* never loaded an altered one.
LoadedAltered == last.op = "load" /\ tamper.what # "none" /\ tamper.loads = 1

\* C8: after the payload or the previous_hash of one persisted block (the
\* Genesis block included) was changed and a ledger re-initialized from the
\* document, is_chain_valid() is False.
C8_AlterationDetected == LoadedAltered => ~IsChainValid(chain)

\* C8 for the blocks after the Genesis block, where the code does detect the
\* alteration.
C8_LaterBlocksDetected ==
    (LoadedAltered /\ tamper.block > 1) => ~IsChainValid(chain)

\* The loaded block at the index recorded for the certificate at position p
\* of the index no longer hashes to the certificate's hash.
ContentChanged(p) ==
    /\ certificates[p].info.block_index < Len(chain)
    /\ BlockHash(chain[certificates[p].info.block_index + 1])
          # certificates[p].info.hash

\* C9: verify_certificate(h) and verify_certificate_by_id(id) are valid only
\* if the block at the certificate's recorded index still hashes to h: with
\* that block's payload altered and its stored hash unchanged, both return
\* invalid.
C9_VerifyDetectsAlteration ==
    \A p \in 1..Len(certificates) :
        ContentChanged(p) =>
            /\ ~VerifyCertificate(chain, certificates, retired_certificates,
                                  certificates[p].info.hash).valid
            /\ ~VerifyCertificateById(chain, certificates, retired_certificates,
                                      certificates[p].id).valid

\* C6: with two ledger writes running in different threads, the steps of
\* one write do not interleave with those of the other: the chain never
\* holds two blocks with the same index or the same previous_hash.
C6_WritesSerialized ==
    \A i, j \in 1..Len(chain) :
        i < j => /\ chain[i].index # chain[j].index
                 /\ chain[i].previous_hash # chain[j].previous_hash

\* C7: of two threads calling retire_certificate(h) for the same active
\* certificate at most one returns True, and at most one
\* certificate_retirement block for the certificate is appended.
C7_ConcurrentRetireOnce ==
    /\ \A id \in CertIds : Cardinality(RetiredAt(chain, id)) <= 1
    /\ \A a, b \in Threads :
          (/\ a # b
           /\ threads[a].op = "retire" /\ threads[b].op = "retire"
           /\ threads[a].hash = threads[b].hash)
          => ~(threads[a].ret = "True" /\ threads[b].ret = "True")


\* C11: the chain is append-only across every ledger operation
\* (reset_blockchain and import_chain included): at every step the chain
\* before the step is a prefix of the chain after it.
C11_AppendOnly ==
    [][/\ Len(chain') >= Len(chain)
       /\ SubSeq(chain', 1, Len(chain)) = chain]_vars

\* Fields the ledger's contract requires of a certificate.
RequiredFields == {"seller_id", "facility_name", "tokens_generated"}

\* C12: issue_certificate called with data that lacks a required field fails
\* with an error before any mutation: nothing is appended, and the
\* certificate index, the retired set and the storage document are unchanged.
C12_MissingFieldRejected ==
    [][(/\ last'.op = "issue"
        /\ \E k \in RequiredFields : k \notin DOMAIN last'.data)
       => /\ last'.raised
          /\ chain' = chain
          /\ certificates' = certificates
          /\ retired_certificates' = retired_certificates
          /\ disk' = disk]_vars

\* C13: retire_certificate(h) for a hash h that no certificate of the index
\* has returns False without raising, and leaves the chain, the certificate
\* index, the retired set and the storage document unchanged.
C13_UnknownHashRejected ==
    [][(/\ last'.op = "retire"
        /\ \A i \in 1..Len(certificates) : certificates[i].info.hash # last'.hash)
       => /\ last'.ok = FALSE
          /\ last'.raised = FALSE
          /\ chain' = chain
          /\ certificates' = certificates
          /\ retired_certificates' = retired_certificates
          /\ disk' = disk]_vars

\* C13 witness: a retire of an unknown hash was rejected by a ledger that
\* holds an active certificate.
C13_Witness ==
    /\ last.op = "retire"
    /\ last.hash = UnknownHash
    /\ last.ok = FALSE
    /\ \E id \in CertKeys(certificates) : id \notin retired_certificates

\* C14: when the storage document is not written during an append, the call
\* is not reported successful while its block stays in the chain: a step
\* that leaves in the chain a new block the document does not hold ends in
\* an error raised by issue_certificate or in False from retire_certificate.
C14_SaveFailureReported ==
    [][(/\ Len(chain') = Len(chain) + 1
        /\ Len(disk'.chain) < Len(chain'))
       => last'.ok = FALSE]_vars

\* C15: after every completed issue_certificate or retire_certificate call
\* the storage document holds the chain, the certificate index and the
\* retired set of the ledger in memory, and a ledger re-initialized from the
\* document gives the same verify_certificate result for every certificate
\* hash, the one just issued included.
C15_DocumentMatchesMemory ==
    (last.op \in {"issue", "retire"}) =>
        LET R == LoadBlockchain(disk) IN
        /\ disk.chain = ExportChain(chain)
        /\ disk.certificates = certificates
        /\ disk.retired_certificates = retired_certificates
        /\ \A h \in KnownHashes :
              VerifyCertificate(R.chain, R.certificates,
                                R.retired_certificates, h)
                 = VerifyCertificate(chain, certificates,
                                     retired_certificates, h)

\* C16: import_chain(export_chain()) yields the source ledger's chain,
\* certificate index (hash, block_index, data and status per id) and retired
\* set: an import_chain step given the whole export (the chain keeps its
\* length) returns True and changes none of the three.
C16_ImportOfExport ==
    [][(last'.op = "import" /\ Len(chain') = Len(chain))
       => /\ last'.ok
          /\ chain' = chain
          /\ certificates' = certificates
          /\ retired_certificates' = retired_certificates]_vars

\* C16 witness: an import has rebuilt a ledger that holds an active and a
\* retired certificate.
C16_Witness ==
    /\ last.op = "import"
    /\ last.ok
    /\ Len(chain) = 4
    /\ retired_certificates # {}
    /\ \E id \in CertKeys(certificates) : id \notin retired_certificates

\* C17: a reader in another thread never sees in the chain a block that has
\* not yet been both validated and written to the storage document: every
\* block of the chain is in the document, at its position.
C17_VisibleBlocksPersisted ==
    \A i \in 1..Len(chain) :
        /\ i <= Len(disk.chain)
        /\ disk.chain[i] = ToDict(chain[i])

\* The ids for which replaying the chain finds an issuance block.
ReplayedIndex == {id \in CertIds : IssuedAt(chain, id) # {}}

\* The ids for which replaying the chain finds a retirement block.
ReplayedRetired == {id \in CertIds : RetiredAt(chain, id) # {}}

\* C18: in every state a reader can observe, an id is in the certificate
\* index if and only if its issuance block is in the chain, and in the
\* retired set if and only if a certificate_retirement block for it is in
\* the chain.
C18_IndexIsReplay ==
    /\ CertKeys(certificates) = ReplayedIndex
    /\ retired_certificates = ReplayedRetired

\* C19: a ledger initialized when no storage document exists holds exactly
\* one block, the Genesis block, with index 0, previous_hash "0" and payload
\* type 'genesis', has an empty certificate index and an empty retired set,
\* and the storage document holds that state.
C19_FreshLedger ==
    (last.op = "init") =>
        /\ Len(chain) = 1
        /\ chain[1].index = 0
        /\ chain[1].previous_hash = ZeroHash
        /\ chain[1].data.type = "genesis"
        /\ certificates = <<>>
        /\ retired_certificates = {}
        /\ disk = Document(chain, certificates, retired_certificates)
        /\ LoadBlockchain(disk).chain = chain

\* C19 witness: the ledger has just been initialized and its document holds
\* one block.
C19_Witness ==
    /\ last.op = "init"
    /\ Len(chain) = 1
    /\ Len(disk.chain) = 1
    /\ disk.total_blocks = 1

\* C20: the Genesis block of a freshly initialized ledger satisfies the
\* configured proof-of-work: its hash starts with `difficulty` zeros.
C20_GenesisProofOfWork ==
    (last.op = "init") => StartsWithZeros(chain[1].hash, difficulty)

\* C21: every block appended by issue_certificate or retire_certificate has
\* a stored hash equal to the hash recomputed from its index, timestamp,
\* data, previous_hash and nonce, and that hash starts with `difficulty`
\* zero hex characters.
C21_AppendedBlocksSealed ==
    \A i \in 2..Len(chain) :
        /\ chain[i].hash = BlockHash(chain[i])
        /\ StartsWithZeros(chain[i].hash, difficulty)

\* C21 witness: the chain holds a sealed issuance block and a sealed
\* retirement block, one of them mined with a nonce above 0.
C21_Witness ==
    /\ \E i \in 2..Len(chain) :
          chain[i].data.type = "hydrogen_credit_certificate"
    /\ \E i \in 2..Len(chain) :
          /\ chain[i].data.type = "certificate_retirement"
          /\ chain[i].hash = BlockHash(chain[i])
    /\ \E i \in 2..Len(chain) :
          chain[i].nonce > 0 /\ StartsWithZeros(chain[i].hash, difficulty)

\* The numbers of a sequence of events.
Numbers(evs) == [i \in 1..Len(evs) |-> evs[i].n]

\* The events of the history records, in the order of the history.
HistoryEvents == [i \in 1..Len(bus.blockchain_events) |->
                     bus.blockchain_events[i].event]

Increasing(s) == \A i, j \in 1..Len(s) : i < j => s[i] < s[j]

Elements(s) == {s[i] : i \in 1..Len(s)}

\* The numbers of the events the dispatcher has taken off the queue.
Taken ==
    Elements(Numbers(bus.socket)) \cup bus.raised
        \cup (IF bus.pc = "emit" THEN {bus.event.n} ELSE {})

\* C22: the dispatcher hands events to the socket layer and records them in
\* the history in exactly the order in which emit_* calls put them on the
\* queue: the events taken so far are the first ones put, those handed over
\* and those recorded appear in the order put, and the events still queued
\* are the later ones, in the order put.
C22_DispatchInPutOrder ==
    /\ Taken = 1..(bus.emitted - Len(bus.event_queue))
    /\ Numbers(bus.event_queue) =
          [i \in 1..Len(bus.event_queue) |->
              bus.emitted - Len(bus.event_queue) + i]
    /\ Increasing(Numbers(bus.socket))
    /\ Increasing(Numbers(HistoryEvents))
    /\ Elements(HistoryEvents) \subseteq Elements(bus.socket)

\* C22 witness: two events were handed over and recorded while a third one
\* waits on the queue.
C22_Witness ==
    /\ Len(bus.socket) >= 2
    /\ Len(bus.blockchain_events) >= 2
    /\ Len(bus.event_queue) >= 1

\* The last k elements of s (all of s when it has fewer).
LastOf(s, k) == SubSeq(s, Len(s) - (IF k < Len(s) THEN k ELSE Len(s)) + 1, Len(s))

\* The events recorded in the history so far, in dispatch order: those
\* handed to the socket layer, but for one whose record is still to be
\* appended.
Recorded ==
    IF bus.pc = "append"
    THEN SubSeq(bus.socket, 1, Len(bus.socket) - 1)
    ELSE bus.socket

\* C23 as stated: in every reachable state the history holds at most the
\* cap of records, and they are the most recently recorded events in
\* dispatch order.
C23_HistoryCapped ==
    /\ Len(bus.blockchain_events) <= HistoryCap
    /\ HistoryEvents = LastOf(Recorded, HistoryCap)

\* C23 amended: the history holds at most the cap of records except between
\* the append and the trim of _broadcast_event, where it holds at most one
\* more; its records are the most recently recorded events in dispatch
\* order, so that the trim drops exactly the oldest record.
C23_HistoryCappedAfterTrim ==
    /\ Len(bus.blockchain_events) <= HistoryCap + 1
    /\ (bus.pc # "trim") => Len(bus.blockchain_events) <= HistoryCap
    /\ HistoryEvents =
          LastOf(Recorded, IF bus.pc = "trim" THEN HistoryCap + 1 ELSE HistoryCap)

\* C23 witness: more events than the cap were recorded, the trim has run and
\* the history holds the cap of records, the oldest event not among them.
C23_Witness ==
    /\ Len(bus.socket) > HistoryCap
    /\ bus.pc = "test"
    /\ Len(bus.blockchain_events) = HistoryCap
    /\ bus.socket[1] \notin Elements(HistoryEvents)

\* The part of the bus the dispatcher works on.
Delivery(b) ==
    [pc |-> b.pc, event |-> b.event, socket |-> b.socket, raised |-> b.raised,
     blockchain_events |-> b.blockchain_events, running |-> b.running]

\* C24: an emit_* call completes by putting one event on the queue without
\* waiting for the dispatcher or a subscriber, and issue_certificate /
\* retire_certificate never wait on event delivery.  Whatever the dispatcher
\* is doing (in the middle of a delivery, or after one that raised), an
\* emit_* call can take its step as long as the bound on events leaves room;
\* and a step that puts an event or writes to the ledger appends at most
\* the one event to the queue and leaves the dispatcher where it is.
C24_EmitNeverWaits ==
    /\ []((bus.emitted < MaxEvents) => ENABLED Emit)
    /\ [][(bus'.emitted # bus.emitted \/ last' # last)
          => /\ Delivery(bus') = Delivery(bus)
             /\ \/ bus' = bus
                \/ /\ bus'.emitted = bus.emitted + 1
                   /\ Len(bus'.event_queue) = Len(bus.event_queue) + 1
                   /\ SubSeq(bus'.event_queue, 1, Len(bus.event_queue))
                         = bus.event_queue
                   /\ bus'.event_queue[Len(bus'.event_queue)].n = bus'.emitted
         ]_vars

\* C24 witness: with one delivery failed and the dispatcher in the middle
\* of the next, a handler has written to the ledger and its event waits on
\* the queue.
C24_Witness ==
    /\ bus.pc = "emit"
    /\ bus.raised # {}
    /\ Len(bus.event_queue) >= 1
    /\ bus.event_queue[Len(bus.event_queue)].type = "certificate_issued"
    /\ last.op = "issue"
    /\ last.ok

\* A step in which the delivery of the event in hand raised.
DeliveryRaised == bus.pc = "emit" /\ bus'.pc \notin {"emit", "append"}

\* C25: if delivering one event raises, the dispatcher keeps running and
\* still dispatches every event queued after it, in order, and the failure
\* changes nothing in the ledger.  The step in which a delivery raises only
\* notes the failure and puts the dispatcher back at its loop test: the
\* running flag, the queue, the socket layer, the history and the ledger
\* are as before; what is handed over stays in the order put; and, after a
\* failure, every queued event is taken for delivery unless stop() ends
\* the loop first.
C25_FailureIsolated ==
    /\ [][DeliveryRaised =>
            /\ bus' = [bus EXCEPT !.pc = "test", !.event = NoEvent,
                                  !.raised = @ \cup {bus.event.n}]
            /\ UNCHANGED ledgerVars]_vars
    /\ [](Increasing(Numbers(bus.socket)))
    /\ \A n \in 1..MaxEvents :
          (bus.raised # {} /\ n \in Elements(Numbers(bus.event_queue)))
              ~> (n \in Taken \/ ~bus.running)

\* C25 witness: a delivery raised, and an event queued after the failed one
\* has been handed to the socket layer and recorded.
C25_Witness ==
    /\ bus.running
    /\ \E r \in bus.raised :
          \E i \in 1..Len(bus.blockchain_events) :
              bus.blockchain_events[i].event.n > r

\* No element occurs twice in s.
NoRepeat(s) == \A i, j \in 1..Len(s) : i # j => s[i] # s[j]

\* C26: every enqueued event is handed to the socket layer at most once and
\* recorded in the history at most once, and is never delivered again, also
\* not after a delivery failure: no event number occurs twice in what the
\* socket layer was handed or in the history, an event whose delivery
\* raised is in neither and not on the queue, and no event that was taken
\* is still (or again) on the queue.
C26_AtMostOnce ==
    /\ NoRepeat(Numbers(bus.socket))
    /\ NoRepeat(Numbers(HistoryEvents))
    /\ NoRepeat(Numbers(bus.event_queue))
    /\ bus.raised \cap Elements(Numbers(bus.socket)) = {}
    /\ bus.raised \cap Elements(Numbers(HistoryEvents)) = {}
    /\ Taken \cap Elements(Numbers(bus.event_queue)) = {}
    /\ bus.pc \in {"append", "trim"} =>
          bus.event.n \notin Elements(Numbers(bus.event_queue))

\* C26 witness: one delivery raised, a later event was handed over and
\* recorded, and the dispatcher went round its loop again with the queue
\* empty.
C26_Witness ==
    /\ bus.raised # {}
    /\ Len(bus.socket) >= 1
    /\ Len(bus.blockchain_events) >= 1
    /\ bus.event_queue = <<>>
    /\ bus.pc = "check"
    /\ bus.emitted >= 2

\* C27: after stop() has been called on the event bus, emit_* calls no
\* longer add events to the queue: once the running flag is cleared, no
\* step makes the queue longer.
C27_NoPutAfterStop ==
    [][(~bus.running) => Len(bus'.event_queue) <= Len(bus.event_queue)]_vars

\* C28: after stop() is called, the dispatcher thread eventually leaves its
\* loop and terminates, whatever the queue holds at that moment: once the
\* running flag is cleared the dispatcher reaches the end of
\* _process_events, it ends only after the flag was cleared, and having
\* ended it takes no further step.
C28_StopTerminates ==
    /\ (~bus.running) ~> (bus.pc = "done")
    /\ [](bus.pc = "done" => ~bus.running)
    /\ [][bus.pc = "done" => Delivery(bus') = Delivery(bus)]_vars

\* C28 witness: the dispatcher has terminated with events left on the queue.
C28_Witness ==
    /\ bus.pc = "done"
    /\ Len(bus.event_queue) >= 2
    /\ Len(bus.socket) >= 1

\* The sum of the values of a dictionary of counts.
RECURSIVE SumCounts(_)
SumCounts(c) ==
    IF DOMAIN c = {} THEN 0
    ELSE LET k == CHOOSE x \in DOMAIN c : TRUE
         IN  c[k] + SumCounts([y \in DOMAIN c \ {k} |-> c[y]])

\* Every event put so far has been through the dispatcher: the queue is
\* empty and the dispatcher holds no event.
AllDispatched ==
    /\ bus.event_queue = <<>>
    /\ bus.pc \in {"test", "check", "done"}

\* C29: for any number N of emitted events, once all N have been
\* dispatched, get_live_statistics() reports per-type counts (event_types)
\* whose sum is N and equals total_events.  (Stated for runs in which no
\* delivery raised.)
C29_CountsSumToEmitted ==
    (AllDispatched /\ bus.raised = {}) =>
        /\ SumCounts(GetLiveStatistics(bus).event_types) = bus.emitted
        /\ GetLiveStatistics(bus).total_events = bus.emitted

\* C29 as amended: once all N emitted events have been dispatched, the
\* per-type counts of get_live_statistics() sum to total_events, which is N
\* less the events whose delivery raised, and at most the capacity of the
\* history; each count is the number of history records of its type.
C29_CountsSumToRecorded ==
    AllDispatched =>
        LET stats == GetLiveStatistics(bus)
            delivered == bus.emitted - Cardinality(bus.raised)
        IN  /\ SumCounts(stats.event_types) = stats.total_events
            /\ stats.total_events =
                  IF delivered < HistoryCap THEN delivered ELSE HistoryCap
            /\ \A ty \in DOMAIN stats.event_types :
                  stats.event_types[ty] =
                      Cardinality({i \in 1..Len(bus.blockchain_events) :
                                      bus.blockchain_events[i].event.type = ty})

\* C29 witness: more events than the history holds were emitted and all
\* dispatched without a failure, two of the recorded ones of one type.
C29_Witness ==
    /\ AllDispatched
    /\ bus.raised = {}
    /\ bus.emitted > HistoryCap
    /\ \E ty \in DOMAIN GetLiveStatistics(bus).event_types :
          GetLiveStatistics(bus).event_types[ty] >= 2

\* The limits a caller passes to get_event_history.
Limits == 0..(HistoryCap + 1)

\* C30: get_event_history(event_type, limit=k) returns the last min(k, m)
\* of the m history records that match the type filter (all records when
\* no type is given), in dispatch order, for every k >= 0.
C30_HistoryLastK ==
    \A event_type \in EventTypes \cup {NoType}, k \in Limits :
        LET matching == IF event_type = NoType THEN bus.blockchain_events
                        ELSE SelectSeq(bus.blockchain_events,
                                 LAMBDA e : e.event.type = event_type)
        IN  GetEventHistory(bus.blockchain_events, event_type, k)
                = LastOf(matching, k)

\* C31: handle_event never raises; an event whose type has no registered
\* handler is dropped without invoking any handler, an exception raised by
\* the matching handler is contained, and exactly the handler currently
\* registered for the event's type is invoked, once.  Every handle_event
\* call returns, leaves the registry as it was, and has invoked the one
\* handler the registry held for the type when the call began, or none
\* when it held none.
C31_HandleEventContained ==
    [][manager'.handled # manager.handled =>
          LET r == manager'.result
              ty == r.event.type
          IN  /\ ~r.escaped
              /\ manager'.event_handlers = manager.event_handlers
              /\ ty \notin DOMAIN manager.event_handlers => r.invoked = <<>>
              /\ ty \in DOMAIN manager.event_handlers =>
                    r.invoked = <<manager.event_handlers[ty]>>
      ]_vars

\* C31 witness: after a handler was replaced, an event of that type went to
\* the new handler, which raised, and handle_event returned.
C31_Witness ==
    /\ manager.handled >= 2
    /\ manager.result.invoked = <<CustomHandler>>
    /\ manager.result.handler_raised
    /\ ~manager.result.escaped
    /\ manager.result.logged = "error"

\* C32: if the identifier generated for an issue_certificate call is
\* already a key of the certificate index, the call raises and leaves the
\* chain, the certificate index and the retired set unchanged: no block is
\* mined and the existing certificate is not overwritten.
C32_DuplicateIdRaises ==
    [][(last'.op = "issue" /\ last'.id \in CertKeys(certificates)) =>
          /\ last'.raised
          /\ UNCHANGED <<chain, certificates, retired_certificates, disk>>
      ]_vars

\* C32 witness: an issue_certificate call whose identifier was that of a
\* certificate already retired has raised, with a second certificate in the
\* index.
C32_Witness ==
    /\ last.op = "issue"
    /\ last.raised
    /\ last.id \in CertKeys(certificates)
    /\ last.id \in retired_certificates
    /\ Len(certificates) >= 2

\* C33: for every certificate in the index with id c and hash h,
\* verify_certificate(h) and verify_certificate_by_id(c) return the same
\* validity flag and the same payload or error info, in every reachable
\* ledger state.
C33_VerifyByHashIsById ==
    \A i \in 1..Len(certificates) :
        VerifyCertificate(chain, certificates, retired_certificates,
                          certificates[i].info.hash)
          = VerifyCertificateById(chain, certificates, retired_certificates,
                                  certificates[i].id)

\* C33 witness: the index holds a certificate both calls find valid and one
\* both calls find retired.
C33_Witness ==
    \E i, j \in 1..Len(certificates) :
        /\ VerifyCertificate(chain, certificates, retired_certificates,
                             certificates[i].info.hash).valid
        /\ VerifyCertificateById(chain, certificates, retired_certificates,
                                 certificates[i].id).valid
        /\ certificates[j].id \in retired_certificates
        /\ ~VerifyCertificateById(chain, certificates, retired_certificates,
                                  certificates[j].id).valid

\* C34: search_transactions(query) and get_blockchain_analytics() return a
\* result without raising in every ledger state reachable through
\* issue_certificate, including after a certificate was issued from data
\* that omits fields such as facility_name, location or tokens_generated.
C34_QueriesNeverRaise ==
    /\ \A query \in SearchQueries : ~SearchTransactions(chain, query).raised
    /\ ~GetBlockchainAnalytics(chain, certificates,
                               retired_certificates).raised

\* The status recorded in the index for a certificate id.
StatusOf(certs, id) == CertInfo(certs, id).status

\* C35: under issue_certificate and retire_certificate a certificate's
\* status only moves forward, absent then active then retired: an id once
\* in the certificate index is never removed from it, and an id once in the
\* retired set never leaves it.  In every step the keys of the index and
\* the retired set only grow, an id enters the index as active and not
\* retired, only an id of the index enters the retired set, and a status
\* "retired" stays.
C35_StatusMovesForward ==
    [][/\ CertKeys(certificates) \subseteq CertKeys(certificates')
       /\ retired_certificates \subseteq retired_certificates'
       /\ \A id \in CertKeys(certificates') \ CertKeys(certificates) :
             /\ StatusOf(certificates', id) = "active"
             /\ id \notin retired_certificates'
       /\ \A id \in retired_certificates' \ retired_certificates :
             /\ id \in CertKeys(certificates)
             /\ StatusOf(certificates, id) = "active"
             /\ StatusOf(certificates', id) = "retired"
       /\ \A id \in CertKeys(certificates) :
             StatusOf(certificates, id) = "retired" =>
                StatusOf(certificates', id) = "retired"
      ]_vars

\* C35 witness: one certificate went from absent to active to retired, and
\* a call that issued under its id again was turned away; another
\* certificate is active.
C35_Witness ==
    /\ last.op = "issue"
    /\ last.raised
    /\ last.id \in retired_certificates
    /\ StatusOf(certificates, last.id) = "retired"
    /\ \E id \in CertKeys(certificates) : StatusOf(certificates, id) = "active"

\* The numbers of the events whose delivery was attempted and is over:
\* handed to the socket layer, or raised.
Attempted == Elements(Numbers(bus.socket)) \cup bus.raised

\* C36: as long as stop() has not been called, every event put on the queue
\* by an emit_* call is eventually taken from the queue and dispatched,
\* under weak fairness of the dispatcher thread: an event on the queue
\* leads to its delivery having been attempted, unless stop() was called.
C36_QueuedIsDispatched ==
    \A n \in 1..MaxEvents :
        (n \in Elements(Numbers(bus.event_queue)))
            ~> (n \in Attempted \/ ~bus.running)

\* C36 witness: every event the bound allows was put, taken and its
\* delivery attempted, the last one handed to the socket layer, and stop()
\* has not been called.
C36_Witness ==
    /\ bus.running
    /\ bus.emitted = MaxEvents
    /\ bus.event_queue = <<>>
    /\ Attempted = 1..MaxEvents
    /\ MaxEvents \in Elements(Numbers(bus.socket))

\* C37: mine_block starts at nonce 0 and increments the nonce by 1 per
\* attempt, so the nonce of the sealed block is the smallest non-negative
\* nonce for which the hash over (index, timestamp, data, previous_hash,
\* nonce) starts with `difficulty` zero hex characters.  For every block
\* appended by issue_certificate or retire_certificate: its hash is the one
\* computed with its nonce and starts with the zeros, and with no smaller
\* nonce does the hash over the same content start with them.
C37_NonceIsLeast ==
    \A i \in 2..Len(chain) :
        LET b == chain[i] IN
        /\ b.nonce >= 0
        /\ b.hash = CalculateHash(b.index, b.timestamp, b.data,
                                  b.previous_hash, b.nonce)
        /\ StartsWithZeros(b.hash, difficulty)
        /\ \A k \in 0..(b.nonce - 1) :
              ~StartsWithZeros(CalculateHash(b.index, b.timestamp, b.data,
                                             b.previous_hash, k), difficulty)

\* C37 witness: the chain holds an issuance block and a retirement block,
\* one sealed after an odd number of increments (three or more) and one
\* after an even number (four or more).
C37_Witness ==
    /\ \E i \in 2..Len(chain) :
          chain[i].data.type = "certificate_retirement"
    /\ \E i \in 2..Len(chain) : chain[i].nonce >= 3 /\ chain[i].nonce % 2 = 1
    /\ \E i \in 2..Len(chain) : chain[i].nonce >= 4 /\ chain[i].nonce % 2 = 0

\* C38: if import_chain returns False (a block record in the input lacks a
\* required field), the ledger's chain, certificate index and retired set
\* are the same as before the call.
C38_FailedImportChangesNothing ==
    [][(last'.op = "import" /\ ~last'.ok) =>
          /\ chain' = chain
          /\ certificates' = certificates
          /\ retired_certificates' = retired_certificates]_vars

\* C39: in every state reachable by issue_certificate, retire_certificate,
\* reset_blockchain and import_chain of any block list, every id in the
\* retired set is a key of the certificate index, so the
\* active_certificates count reported by get_chain_info is never negative.
C39_RetiredAreIndexed ==
    /\ retired_certificates \subseteq CertKeys(certificates)
    /\ GetChainInfo(chain, certificates,
                    retired_certificates).active_certificates >= 0

\* C40: from a freshly initialized ledger, after any sequence of sequential
\* issue_certificate and retire_certificate calls, the number of blocks
\* equals 1 + the number of certificates in the index + the number of ids
\* in the retired set, as get_chain_info reports them.
C40_BlockCount ==
    LET info == GetChainInfo(chain, certificates, retired_certificates) IN
    /\ info.total_blocks
          = 1 + info.total_certificates + info.retired_certificates
    /\ info.total_blocks = Len(chain)
    /\ info.total_certificates = Cardinality(CertKeys(certificates))

\* C40 witness: two certificates were issued and one of them retired, and
\* the last call was turned away without a block.
C40_Witness ==
    /\ Len(chain) = 4
    /\ Len(certificates) = 2
    /\ Cardinality(retired_certificates) = 1
    /\ last.op \in {"issue", "retire"}
    /\ ~last.ok

=============================================================================
